---- MODULE Spec2Model ----
(***************************************************************************)
(* Model of the analytical core of WepGpu-Embeddings:                      *)
(*   TopicModeler.run / _cluster / _countWords   (src/topicModeler.js)     *)
(*   DimensionalityReducer.reduce                (src/main.js)             *)
(* Strings are sequences of one-character strings, so tokenisation, label  *)
(* joining and ordering are computed, not assumed.  JavaScript Maps are    *)
(* sequences in insertion order.  The two libraries the code calls         *)
(* (ml-kmeans, pca-js) are the environment: their results are chosen       *)
(* nondeterministically within the shape their callers rely on.            *)
(***************************************************************************)
EXTENDS Integers, Sequences, FiniteSets, TLC

\* ------------------------------------------------------------------ bounds
MaxN == 3          \* longest texts array tried
MaxK == 2          \* largest explicit k argument tried
MaxD == 2          \* widest embedding vector given to reduce
MaxRows == 3       \* longest embeddings matrix given to reduce
MaxTarget == 2     \* largest targetDim given to reduce
MaxRepeatN == 2    \* longest texts array given to repeated calls of run
MaxLines == 4      \* most lines typed into the text area
MaxHandlers == 2   \* most click-handler invocations followed at once

\* ------------------------------------------------------- characters, strings
UpperAlpha ==
  <<"A","B","C","D","E","F","G","H","I","J","K","L","M",
    "N","O","P","Q","R","S","T","U","V","W","X","Y","Z">>
LowerAlpha ==
  <<"a","b","c","d","e","f","g","h","i","j","k","l","m",
    "n","o","p","q","r","s","t","u","v","w","x","y","z">>
DigitChars == <<"0","1","2","3","4","5","6","7","8","9">>

Range(s) == { s[i] : i \in DOMAIN s }

\* String.prototype.toLowerCase on one character
LowerOf == [c \in Range(UpperAlpha) |->
              LowerAlpha[CHOOSE i \in DOMAIN UpperAlpha : UpperAlpha[i] = c]]
ToLowerChar(c) == IF c \in DOMAIN LowerOf THEN LowerOf[c] ELSE c

\* the regular-expression classes \w and \s
WordChars == Range(UpperAlpha) \cup Range(LowerAlpha) \cup Range(DigitChars) \cup {"_"}
SpaceChars == {" ", "\t", "\n"}
IsWordChar(c) == c \in WordChars
IsSpace(c) == c \in SpaceChars

\* UTF-16 code-unit order of the characters a token can hold: 0-9 < _ < a-z
CodeOrder == DigitChars \o <<"_">> \o LowerAlpha
CodeOf == [c \in Range(CodeOrder) |-> CHOOSE i \in DOMAIN CodeOrder : CodeOrder[i] = c]
CharCode(c) == CodeOf[c]

\* a < b for JavaScript strings
RECURSIVE StrLess(_, _)
StrLess(a, b) ==
  IF b = <<>> THEN FALSE
  ELSE IF a = <<>> THEN TRUE
  ELSE IF a[1] = b[1] THEN StrLess(Tail(a), Tail(b))
  ELSE CharCode(a[1]) < CharCode(b[1])

\* String(n) for a natural number
RECURSIVE NumToStr(_)
NumToStr(n) ==
  IF n < 10 THEN <<DigitChars[n + 1]>>
  ELSE NumToStr(n \div 10) \o <<DigitChars[(n % 10) + 1]>>

\* Array.prototype.join
RECURSIVE Join(_, _)
Join(strs, sep) ==
  IF strs = <<>> THEN <<>>
  ELSE IF Len(strs) = 1 THEN strs[1]
  ELSE strs[1] \o sep \o Join(Tail(strs), sep)

\* Array.prototype.slice(from, to) with 0-based, non-negative arguments
Slice(s, from, to) ==
  LET hi == IF to < Len(s) THEN to ELSE Len(s)
  IN  IF from >= hi THEN <<>> ELSE [i \in 1..(hi - from) |-> s[from + i]]

\* ------------------------------------------------------------ stop words
stopWords == {
    <<"a">>, <<"a","b","o","u","t">>, <<"a","b","o","v","e">>, <<"a","f","t","e","r">>,
    <<"a","g","a","i","n">>, <<"a","g","a","i","n","s","t">>, <<"a","l","l">>, <<"a","m">>,
    <<"a","n">>, <<"a","n","d">>, <<"a","n","y">>, <<"a","r","e">>, <<"a","r","e","n","'","t">>,
    <<"a","s">>, <<"a","t">>, <<"b","e">>, <<"b","e","c","a","u","s","e">>, <<"b","e","e","n">>,
    <<"b","e","f","o","r","e">>, <<"b","e","i","n","g">>, <<"b","e","l","o","w">>,
    <<"b","e","t","w","e","e","n">>, <<"b","o","t","h">>, <<"b","u","t">>, <<"b","y">>,
    <<"c","a","n","'","t">>, <<"c","a","n","n","o","t">>, <<"c","o","u","l","d">>,
    <<"c","o","u","l","d","n","'","t">>, <<"d","i","d">>, <<"d","i","d","n","'","t">>,
    <<"d","o">>, <<"d","o","e","s">>, <<"d","o","e","s","n","'","t">>, <<"d","o","i","n","g">>,
    <<"d","o","n","'","t">>, <<"d","o","w","n">>, <<"d","u","r","i","n","g">>,
    <<"e","a","c","h">>, <<"f","e","w">>, <<"f","o","r">>, <<"f","r","o","m">>,
    <<"f","u","r","t","h","e","r">>, <<"h","a","d">>, <<"h","a","d","n","'","t">>,
    <<"h","a","s">>, <<"h","a","s","n","'","t">>, <<"h","a","v","e">>,
    <<"h","a","v","e","n","'","t">>, <<"h","a","v","i","n","g">>, <<"h","e">>,
    <<"h","e","'","d">>, <<"h","e","'","l","l">>, <<"h","e","'","s">>, <<"h","e","r">>,
    <<"h","e","r","e">>, <<"h","e","r","e","'","s">>, <<"h","e","r","s">>,
    <<"h","e","r","s","e","l","f">>, <<"h","i","m">>, <<"h","i","m","s","e","l","f">>,
    <<"h","i","s">>, <<"h","o","w">>, <<"h","o","w","'","s">>, <<"i">>, <<"i","'","d">>,
    <<"i","'","l","l">>, <<"i","'","m">>, <<"i","'","v","e">>, <<"i","f">>, <<"i","n">>,
    <<"i","n","t","o">>, <<"i","s">>, <<"i","s","n","'","t">>, <<"i","t">>, <<"i","t","'","s">>,
    <<"i","t","s">>, <<"i","t","s","e","l","f">>, <<"l","e","t","'","s">>, <<"m","e">>,
    <<"m","o","r","e">>, <<"m","o","s","t">>, <<"m","u","s","t","n","'","t">>, <<"m","y">>,
    <<"m","y","s","e","l","f">>, <<"n","o">>, <<"n","o","r">>, <<"n","o","t">>, <<"o","f">>,
    <<"o","f","f">>, <<"o","n">>, <<"o","n","c","e">>, <<"o","n","l","y">>, <<"o","r">>,
    <<"o","t","h","e","r">>, <<"o","u","g","h","t">>, <<"o","u","r">>, <<"o","u","r","s">>,
    <<"o","u","r","s","e","l","v","e","s">>, <<"o","u","t">>, <<"o","v","e","r">>,
    <<"o","w","n">>, <<"s","a","m","e">>, <<"s","h","a","n","'","t">>, <<"s","h","e">>,
    <<"s","h","e","'","d">>, <<"s","h","e","'","l","l">>, <<"s","h","e","'","s">>,
    <<"s","h","o","u","l","d">>, <<"s","h","o","u","l","d","n","'","t">>, <<"s","o">>,
    <<"s","o","m","e">>, <<"s","u","c","h">>, <<"t","h","a","n">>, <<"t","h","a","t">>,
    <<"t","h","a","t","'","s">>, <<"t","h","e">>, <<"t","h","e","i","r">>,
    <<"t","h","e","i","r","s">>, <<"t","h","e","m">>,
    <<"t","h","e","m","s","e","l","v","e","s">>, <<"t","h","e","n">>, <<"t","h","e","r","e">>,
    <<"t","h","e","r","e","'","s">>, <<"t","h","e","s","e">>, <<"t","h","e","y">>,
    <<"t","h","e","y","'","d">>, <<"t","h","e","y","'","l","l">>,
    <<"t","h","e","y","'","r","e">>, <<"t","h","e","y","'","v","e">>, <<"t","h","i","s">>,
    <<"t","h","o","s","e">>, <<"t","h","r","o","u","g","h">>, <<"t","o">>, <<"t","o","o">>,
    <<"u","n","d","e","r">>, <<"u","n","t","i","l">>, <<"u","p">>, <<"v","e","r","y">>,
    <<"w","a","s">>, <<"w","a","s","n","'","t">>, <<"w","e">>, <<"w","e","'","d">>,
    <<"w","e","'","l","l">>, <<"w","e","'","r","e">>, <<"w","e","'","v","e">>,
    <<"w","e","r","e">>, <<"w","e","r","e","n","'","t">>, <<"w","h","a","t">>,
    <<"w","h","a","t","'","s">>, <<"w","h","e","n">>, <<"w","h","e","n","'","s">>,
    <<"w","h","e","r","e">>, <<"w","h","e","r","e","'","s">>, <<"w","h","i","c","h">>,
    <<"w","h","i","l","e">>, <<"w","h","o">>, <<"w","h","o","'","s">>, <<"w","h","o","m">>,
    <<"w","h","y">>, <<"w","h","y","'","s">>, <<"w","i","t","h">>, <<"w","o","n","'","t">>,
    <<"w","o","u","l","d">>, <<"w","o","u","l","d","n","'","t">>, <<"y","o","u">>,
    <<"y","o","u","'","d">>, <<"y","o","u","'","l","l">>, <<"y","o","u","'","r","e">>,
    <<"y","o","u","'","v","e">>, <<"y","o","u","r">>, <<"y","o","u","r","s">>,
    <<"y","o","u","r","s","e","l","f">>, <<"y","o","u","r","s","e","l","v","e","s">>
  }

\* ------------------------------------------------------------ tokenisation
VARIABLE stopSet      \* the TopicModeler instance: this.stopWords

\* doc.toLowerCase()
ToLowerCase(doc) == [i \in DOMAIN doc |-> ToLowerChar(doc[i])]

\* .replace(/[^\w\s]/g, ' ')
ReplacePunct(doc) ==
  [i \in DOMAIN doc |-> IF IsWordChar(doc[i]) \/ IsSpace(doc[i]) THEN doc[i] ELSE " "]

\* .split(/\s+/): the pieces between maximal runs of white space, the empty
\* piece before a leading run and after a trailing run included
RECURSIVE SplitFrom(_, _, _, _)
SplitFrom(doc, i, cur, inRun) ==
  IF i > Len(doc) THEN <<cur>>
  ELSE IF IsSpace(doc[i])
       THEN IF inRun THEN SplitFrom(doc, i + 1, cur, TRUE)
            ELSE <<cur>> \o SplitFrom(doc, i + 1, <<>>, TRUE)
       ELSE SplitFrom(doc, i + 1, Append(cur, doc[i]), FALSE)
SplitWS(doc) == SplitFrom(doc, 1, <<>>, FALSE)

\* .filter(w => w.length > 2 && !this.stopWords.has(w))
KeepWord(w) == Len(w) > 2 /\ w \notin stopSet
FilterWords(ws) == SelectSeq(ws, KeepWord)

Tokenize(doc) == FilterWords(SplitWS(ReplacePunct(ToLowerCase(doc))))

\* _countWords: the Map word -> count, as a sequence in insertion order
Bump(counts, w) ==
  IF \E i \in DOMAIN counts : counts[i].word = w
  THEN LET i == CHOOSE j \in DOMAIN counts : counts[j].word = w
       IN  [counts EXCEPT ![i].count = @ + 1]
  ELSE Append(counts, [word |-> w, count |-> 1])

RECURSIVE AddWords(_, _)
AddWords(counts, words) ==
  IF words = <<>> THEN counts
  ELSE AddWords(Bump(counts, Head(words)), Tail(words))

RECURSIVE CountWordsFrom(_, _)
CountWordsFrom(counts, docs) ==
  IF docs = <<>> THEN counts
  ELSE CountWordsFrom(AddWords(counts, Tokenize(Head(docs))), Tail(docs))
CountWords(docs) == CountWordsFrom(<<>>, docs)

\* this.stopWords after _countWords ran for every cluster: it is only read
StopWordsAfterCountMutant(sw, cwc) ==
  sw \cup UNION { { cwc[c][j].word : j \in DOMAIN cwc[c] } : c \in DOMAIN cwc }
StopWordsAfterCount(sw, cwc) == sw

\* ------------------------------------------------------------- run, step 1
\* !texts || texts.length === 0
TextsMissingMutant(given, ts) == ~given
TextsMissing(given, ts) == ~given \/ Len(ts) = 0

\* what texts[i] yields past the end of the array
Undefined == <<"undefined">>
\* texts[i] with a 0-based index
TextAt(ts, i) == IF i < Len(ts) THEN ts[i + 1] ELSE Undefined

\* Math.floor(Math.sqrt(n / 2)): the largest r with 2 r^2 <= n
FloorSqrtHalf(n) == CHOOSE r \in 0..n : 2 * r * r <= n /\ 2 * (r + 1) * (r + 1) > n
Max(a, b) == IF a >= b THEN a ELSE b

\* the optional argument k is <<>> when omitted (null) and <<v>> when given
Truthy(kArg) == kArg # <<>> /\ kArg[1] # 0
NumClusters(ts, kArg) ==
  IF Truthy(kArg) THEN kArg[1] ELSE Max(2, FloorSqrtHalf(Len(ts)))

\* ml-kmeans rejects K <= 0 and K > data.length
KmeansRejects(emb, kk) == kk <= 0 \/ kk > Len(emb)
\* the assignments kmeans can return: one id in 0..K-1 per data point
KmeansResults(emb, kk) == [DOMAIN emb -> 0..(kk - 1)]

\* ------------------------------------------------------------- run, step 2
\* clusteredDocs: Map label -> {docs, indices}, in order of first appearance
RECURSIVE GroupFrom(_, _, _, _)
GroupFrom(groups, cl, ts, i) ==
  IF i >= Len(cl) THEN groups
  ELSE LET label == cl[i + 1]
           grown == IF \E g \in DOMAIN groups : groups[g].label = label
                    THEN groups
                    ELSE Append(groups, [label |-> label, docs |-> <<>>, indices |-> <<>>])
           g == CHOOSE j \in DOMAIN grown : grown[j].label = label
       IN  GroupFrom([grown EXCEPT ![g].docs = Append(@, TextAt(ts, i)),
                                   ![g].indices = Append(@, i)],
                     cl, ts, i + 1)
GroupDocs(cl, ts) == GroupFrom(<<>>, cl, ts, 0)

\* ------------------------------------------------------------- run, step 3
\* wordInClusters.get(word).size
ClustersWithWord(cwc, w) ==
  Cardinality({ c \in DOMAIN cwc : \E j \in DOMAIN cwc[c] : cwc[c][j].word = w })

RECURSIVE Pow(_, _)
Pow(b, e) == IF e = 0 THEN 1 ELSE b * Pow(b, e - 1)

\* a.score > b.score where score = tf * Math.log(1 + total / df):
\* tf1 * log((df1 + T) / df1) > tf2 * log((df2 + T) / df2) compared exactly as
\* (df1 + T)^tf1 * df2^tf2 > (df2 + T)^tf2 * df1^tf1
ScoreGreaterMutant(a, b, total) == a.tf > b.tf
ScoreGreater(a, b, total) ==
  Pow(a.df + total, a.tf) * Pow(b.df, b.tf) > Pow(b.df + total, b.tf) * Pow(a.df, a.tf)

\* the scores array of one cluster, in the order of wordCounts.entries()
Scores(cwc, c) ==
  [j \in DOMAIN cwc[c] |->
     [word |-> cwc[c][j].word, tf |-> cwc[c][j].count,
      df |-> ClustersWithWord(cwc, cwc[c][j].word)]]

\* scores.sort((a, b) => b.score - a.score): stable, descending by score
InsertByScore(sorted, x, total) ==
  \* x goes after every member that scores at least as much (sorted is descending)
  LET n == Cardinality({ i \in DOMAIN sorted : ~ScoreGreater(x, sorted[i], total) })
  IN  SubSeq(sorted, 1, n) \o <<x>> \o SubSeq(sorted, n + 1, Len(sorted))

RECURSIVE SortByScoreFrom(_, _, _)
SortByScoreFrom(sorted, rest, total) ==
  IF rest = <<>> THEN sorted
  ELSE SortByScoreFrom(InsertByScore(sorted, Head(rest), total), Tail(rest), total)
SortByScoreMutant(scores, total) == scores
SortByScore(scores, total) == SortByScoreFrom(<<>>, scores, total)

\* scores.slice(0, 5).map(s => s.word)
TopK == 5
LabelK == 3
Keywords(sortedScores) ==
  LET top == Slice(sortedScores, 0, TopK) IN [i \in DOMAIN top |-> top[i].word]

\* keywords.slice(0, 3).join("_") || `Topic ${label}`
TopicPrefix == <<"T","o","p","i","c"," ">>
TopicLabelMutant(keywords, id) == Join(Slice(keywords, 0, LabelK), <<"_">>)
TopicLabel(keywords, id) ==
  LET joined == Join(Slice(keywords, 0, LabelK), <<"_">>)
  IN  IF joined # <<>> THEN joined ELSE TopicPrefix \o NumToStr(id)

\* the object pushed to results for the cluster at position c of clusteredDocs
MakeTopicMutant(groups, cwc, c, emb) ==
  LET keywords == Keywords(SortByScore(Scores(cwc, c), Len(groups)))
  IN  [id |-> groups[c].label,
       label |-> TopicLabel(keywords, groups[c].label),
       keywords |-> keywords,
       docs |-> groups[c].docs,
       indices |-> groups[c].indices,
       embeddings |-> [j \in DOMAIN groups[c].indices |-> emb[j]]]
MakeTopic(groups, cwc, c, emb) ==
  LET keywords == Keywords(SortByScore(Scores(cwc, c), Len(groups)))
  IN  [id |-> groups[c].label,
       label |-> TopicLabel(keywords, groups[c].label),
       keywords |-> keywords,
       docs |-> groups[c].docs,
       indices |-> groups[c].indices,
       embeddings |-> [j \in DOMAIN groups[c].indices |-> emb[groups[c].indices[j] + 1]]]

\* results.sort((a, b) => a.id - b.id)
InsertById(sorted, x) ==
  LET n == Cardinality({ i \in DOMAIN sorted : sorted[i].id <= x.id })
  IN  SubSeq(sorted, 1, n) \o <<x>> \o SubSeq(sorted, n + 1, Len(sorted))
RECURSIVE SortByIdFrom(_, _)
SortByIdFrom(sorted, rest) ==
  IF rest = <<>> THEN sorted
  ELSE SortByIdFrom(InsertById(sorted, Head(rest)), Tail(rest))
SortByIdMutant(topics) == topics
SortById(topics) == SortByIdFrom(<<>>, topics)

\* ------------------------------------------------------------------ reduce
\* e.slice(0, targetDim) followed by while (arr.length < targetDim) arr.push(0)
RECURSIVE PadTo(_, _)
PadTo(arr, width) == IF Len(arr) < width THEN PadTo(Append(arr, 0), width) ELSE arr
FallbackRowMutant(e, t) == Slice(e, 0, t)
FallbackRow(e, t) == PadTo(Slice(e, 0, t), t)

\* the input vector e once its row is built: slice copies, and the zeros are
\* pushed onto the copy
RowAfterFallbackMutant(e, t) == PadTo(e, t)
RowAfterFallback(e, t) == e

\* embeddings.length < targetDim + 1
UsesFallback(emb, t) == Len(emb) < t + 1

\* vectors.slice(0, targetDim): a negative end counts from the end of the array
SliceEnd(s, t) ==
  IF t >= 0 THEN Slice(s, 0, t) ELSE Slice(s, 0, Max(Len(s) + t, 0))

\* dot = (a, b) => a.reduce((sum, val, i) => sum + val * b[i], 0)
RECURSIVE DotFrom(_, _, _)
DotFrom(a, b, i) == IF i > Len(a) THEN 0 ELSE a[i] * b[i] + DotFrom(a, b, i + 1)
Dot(a, b) == DotFrom(a, b, 1)

\* what v.eigenvector yields for a pair that has no such property (undefined)
NoVector == <<>>

\* dot(embeddings[i], topVectors[j]) reads b[i] of an undefined b, and throws,
\* when topVectors has no entry j and the embedding has a component to multiply
ProjectionThrows(emb, top, t) ==
  \E i \in DOMAIN emb : \E j \in 1..t :
     /\ j > Len(top) \/ top[j] = NoVector
     /\ Len(emb[i]) > 0

ProjectRowMutant(e, top, t) ==
  [j \in 1..Max(t, 0) |-> IF 1 <= Len(top) THEN Dot(e, top[1]) ELSE 0]
ProjectRow(e, top, t) ==
  [j \in 1..Max(t, 0) |-> IF j <= Len(top) THEN Dot(e, top[j]) ELSE 0]

\* PCA.getEigenVectors: one eigenpair per column of the data, the eigenvectors
\* orthonormal; here the signed permutations of the standard basis of width d.
\* Each entry stands for what v.eigenvector yields for one returned pair.
\* main.js reads the pairs through v.eigenvector and repro_pca.cjs reads them
\* through v.vector; the library is not part of the source, so both outcomes
\* are kept: the property holds the eigenvector, or it is undefined.
UnitVec(d, p, s) == [c \in 1..d |-> IF c = p THEN s ELSE 0]
MissingProperty(d) == [i \in 1..d |-> NoVector]
EigenBases(d) ==
  { [i \in 1..d |-> UnitVec(d, perm[i], s)] :
      perm \in { f \in [1..d -> 1..d] : \A i, j \in 1..d : i # j => f[i] # f[j] },
      s \in {-1, 1} }

\* ------------------------------------------------------------------- state
VARIABLES
  texts,              \* run: the texts argument
  textsGiven,         \* run: FALSE when the texts argument is null or undefined
  prev,               \* what the previous call on this instance returned, if any
  embeddings,         \* run and reduce: the embeddings argument
  k,                  \* run: the k argument, <<>> when omitted
  targetDim,          \* reduce: the targetDim argument
  pc,                 \* position in the call
  numClusters,        \* run: const numClusters
  clusters,           \* run: the clusters array kmeans returned
  clusteredDocs,      \* run: Map label -> {docs, indices}
  clusterWordCounts,  \* run: Map label -> Map word -> count, parallel to clusteredDocs
  vectors,            \* reduce: what PCA.getEigenVectors returned
  result,             \* the value returned
  error,              \* the kind of the exception thrown, "none" if none
  calls,              \* how often each library was called
  ui,                 \* click handler: the button, its text, the loader, the status line
  input,              \* click handler: the lines of the text area
  handlers            \* click handler: the invocations that have not finished

vars == <<ui, input, handlers, texts, textsGiven, stopSet, prev, embeddings, k, targetDim, pc, numClusters, clusters, clusteredDocs,
          clusterWordCounts, vectors, result, error, calls>>

\* ------------------------------------------------------------------ inputs
Doc1 == <<"C","a","t"," ","c","a","t"," ","d","o","g">>                \* "Cat cat dog"
Doc2 == <<"t","h","e"," ","d","o","g",","," ","a","n","t","!">>        \* "the dog, ant!"
Doc3 == <<"T","o"," ","b","e",".">>                                    \* "To be."
Doc4 == <<"f","o","x"," ","e","e","l"," ","d","o","g"," ","c","a","t",
          " ","b","e","e"," ","a","n","t">>                            \* "fox eel dog cat bee ant"
DocPool == {Doc1, Doc2, Doc3, Doc4}
RepeatPool == {Doc1, Doc2, Doc3}

SeqsUpTo(S, n) == UNION { [1..m -> S] : m \in 0..n }

\* run is tried with embeddings one shorter, as long and one longer than texts
RunEmbeddings(m) == [i \in 1..m |-> <<i>>]
KArgs == {<<>>} \cup { <<v>> : v \in -1..MaxK }

EmbeddingValues == {1, 2}
Matrices == UNION { [1..n -> [1..d -> EmbeddingValues]] : n \in 0..MaxRows, d \in 1..MaxD }
TargetDims == -1..MaxTarget

NoCalls == [kmeans |-> 0, pca |-> 0]

\* the page once app.init has loaded the model and registered the listener
IdleUi == [disabled |-> FALSE, btnText |-> TRUE, loader |-> FALSE,
           status |-> "Model ready.", progress |-> FALSE, pct |-> 0]

\* -------------------------------------------------------------------- Init
Init ==
  /\ ui = IdleUi
  /\ input = <<>>
  /\ handlers = <<>>
  /\ texts \in SeqsUpTo(DocPool, MaxN)
  /\ textsGiven \in BOOLEAN
  /\ ~textsGiven => texts = <<>>
  /\ stopSet = stopWords
  /\ prev = <<>>
  /\ \E m \in {Len(texts) - 1, Len(texts), Len(texts) + 1} :
       /\ m >= 0
       /\ embeddings = RunEmbeddings(m)
  /\ k \in KArgs
  /\ targetDim = 0
  /\ pc = "run"
  /\ numClusters = 0
  /\ clusters = <<>>
  /\ clusteredDocs = <<>>
  /\ clusterWordCounts = <<>>
  /\ vectors = <<>>
  /\ result = <<>>
  /\ error = "none"
  /\ calls = NoCalls

InitReduce ==
  /\ ui = IdleUi
  /\ input = <<>>
  /\ handlers = <<>>
  /\ texts = <<>>
  /\ textsGiven = FALSE
  /\ stopSet = stopWords
  /\ prev = <<>>
  /\ embeddings \in Matrices
  /\ k = <<>>
  /\ targetDim \in TargetDims
  /\ pc = "reduce"
  /\ numClusters = 0
  /\ clusters = <<>>
  /\ clusteredDocs = <<>>
  /\ clusterWordCounts = <<>>
  /\ vectors = <<>>
  /\ result = <<>>
  /\ error = "none"
  /\ calls = NoCalls

\* ------------------------------------------------------- TopicModeler.run
\* if (!texts || texts.length === 0) return [];  const numClusters = ...
RunEntry ==
  /\ pc = "run"
  /\ IF TextsMissing(textsGiven, texts)
     THEN /\ pc' = "returned"
          /\ result' = <<>>
          /\ UNCHANGED numClusters
     ELSE /\ pc' = "cluster"
          /\ numClusters' = NumClusters(texts, k)
          /\ UNCHANGED result
  /\ UNCHANGED <<ui, input, handlers, texts, textsGiven, stopSet, prev, embeddings, k, targetDim, clusters, clusteredDocs,
                 clusterWordCounts, vectors, error, calls>>

\* const { clusters } = this._cluster(embeddings, numClusters);
Cluster ==
  /\ pc = "cluster"
  /\ calls' = [calls EXCEPT !.kmeans = @ + 1]
  /\ IF KmeansRejects(embeddings, numClusters)
     THEN /\ pc' = "threw"
          /\ error' = "InvalidK"
          /\ UNCHANGED clusters
     ELSE /\ pc' = "group"
          /\ clusters' \in KmeansResults(embeddings, numClusters)
          /\ UNCHANGED error
  /\ UNCHANGED <<ui, input, handlers, texts, textsGiven, stopSet, prev, embeddings, k, targetDim, numClusters, clusteredDocs,
                 clusterWordCounts, vectors, result>>

\* for (let i = 0; i < clusters.length; i++) { ... push(texts[i]) ... push(i) }
GroupDocuments ==
  /\ pc = "group"
  /\ clusteredDocs' = GroupDocs(clusters, texts)
  /\ pc' = "count"
  /\ UNCHANGED <<ui, input, handlers, texts, textsGiven, stopSet, prev, embeddings, k, targetDim, numClusters, clusters,
                 clusterWordCounts, vectors, result, error, calls>>

\* clusterWordCounts.set(label, this._countWords(data.docs)); doc.toLowerCase()
\* throws a TypeError on a doc that is undefined
CountClusterWords ==
  /\ pc = "count"
  /\ IF \E c \in DOMAIN clusteredDocs : Undefined \in Range(clusteredDocs[c].docs)
     THEN /\ pc' = "threw"
          /\ error' = "TypeError"
          /\ UNCHANGED <<clusterWordCounts, stopSet>>
     ELSE /\ pc' = "generate"
          /\ clusterWordCounts' =
               [c \in DOMAIN clusteredDocs |-> CountWords(clusteredDocs[c].docs)]
          /\ stopSet' = StopWordsAfterCount(stopSet, clusterWordCounts')
          /\ UNCHANGED error
  /\ UNCHANGED <<ui, input, handlers, texts, textsGiven, prev, embeddings, k, targetDim, numClusters, clusters,
                 clusteredDocs, vectors, result, calls>>

\* the output loop and return results.sort((a, b) => a.id - b.id)
GenerateOutput ==
  /\ pc = "generate"
  /\ result' = SortById([c \in DOMAIN clusteredDocs |->
                           MakeTopic(clusteredDocs, clusterWordCounts, c, embeddings)])
  /\ pc' = "returned"
  /\ UNCHANGED <<ui, input, handlers, texts, textsGiven, stopSet, prev, embeddings, k, targetDim, numClusters, clusters,
                 clusteredDocs, clusterWordCounts, vectors, error, calls>>

Next == RunEntry \/ Cluster \/ GroupDocuments \/ CountClusterWords \/ GenerateOutput

Spec == Init /\ [][Next]_vars

\* ------------------------------------------- repeated calls of run
\* app.topicModeler is one instance, and run is called on it once per click;
\* here the caller passes the same texts and embeddings arrays again
InitCalls ==
  /\ ui = IdleUi
  /\ input = <<>>
  /\ handlers = <<>>
  /\ texts \in SeqsUpTo(RepeatPool, MaxRepeatN)
  /\ textsGiven = TRUE
  /\ stopSet = stopWords
  /\ prev = <<>>
  /\ embeddings = RunEmbeddings(Len(texts))
  /\ k \in KArgs
  /\ targetDim = 0
  /\ pc = "run"
  /\ numClusters = 0
  /\ clusters = <<>>
  /\ clusteredDocs = <<>>
  /\ clusterWordCounts = <<>>
  /\ vectors = <<>>
  /\ result = <<>>
  /\ error = "none"
  /\ calls = NoCalls

\* the next call: fresh locals, the instance and the caller's arrays as they are
CallAgain ==
  /\ pc \in {"returned", "threw"}
  /\ prev' = IF pc = "returned" /\ Len(texts) > 0
             THEN <<[clusters |-> clusters, result |-> result]>>
             ELSE prev
  /\ k' \in KArgs
  /\ pc' = "run"
  /\ numClusters' = 0
  /\ clusters' = <<>>
  /\ clusteredDocs' = <<>>
  /\ clusterWordCounts' = <<>>
  /\ result' = <<>>
  /\ error' = "none"
  /\ calls' = NoCalls
  /\ UNCHANGED <<ui, input, handlers, texts, textsGiven, stopSet, embeddings, targetDim, vectors>>

NextCalls == Next \/ CallAgain

SpecCalls == InitCalls /\ [][NextCalls]_vars

\* ------------------------------------------- DimensionalityReducer.reduce
\* if (embeddings.length < targetDim + 1) return embeddings.map(...)
ReduceEntry ==
  /\ pc = "reduce"
  /\ IF UsesFallback(embeddings, targetDim)
     THEN /\ pc' = "returned"
          /\ result' = [i \in DOMAIN embeddings |-> FallbackRow(embeddings[i], targetDim)]
          /\ embeddings' =
               [i \in DOMAIN embeddings |-> RowAfterFallback(embeddings[i], targetDim)]
     ELSE /\ pc' = "decompose"
          /\ UNCHANGED <<result, embeddings>>
  /\ UNCHANGED <<ui, input, handlers, texts, textsGiven, stopSet, prev, k, targetDim, numClusters, clusters,
                 clusteredDocs, clusterWordCounts, vectors, error, calls>>

\* const vectors = PCA.getEigenVectors(embeddings); on a matrix without rows
\* the library is outside its documented domain: it may throw or return nothing
Decompose ==
  /\ pc = "decompose"
  /\ calls' = [calls EXCEPT !.pca = @ + 1]
  /\ IF Len(embeddings) = 0
     THEN \/ /\ pc' = "threw"
             /\ error' = "TypeError"
             /\ UNCHANGED vectors
          \/ /\ pc' = "project"
             /\ vectors' = <<>>
             /\ UNCHANGED error
     ELSE /\ pc' = "project"
          /\ vectors' \in EigenBases(Len(embeddings[1]))
                          \cup {MissingProperty(Len(embeddings[1]))}
          /\ UNCHANGED error
  /\ UNCHANGED <<ui, input, handlers, texts, textsGiven, stopSet, prev, embeddings, k, targetDim, numClusters, clusters,
                 clusteredDocs, clusterWordCounts, result>>

\* topVectors = vectors.slice(0, targetDim)...; the projection loops; return
Project ==
  /\ pc = "project"
  /\ LET topVectors == SliceEnd(vectors, targetDim)
     IN  IF ProjectionThrows(embeddings, topVectors, targetDim)
         THEN /\ pc' = "threw"
              /\ error' = "TypeError"
              /\ UNCHANGED result
         ELSE /\ pc' = "returned"
              /\ result' = [i \in DOMAIN embeddings |->
                              ProjectRow(embeddings[i], topVectors, targetDim)]
              /\ UNCHANGED error
  /\ UNCHANGED <<ui, input, handlers, texts, textsGiven, stopSet, prev, embeddings, k, targetDim, numClusters, clusters,
                 clusteredDocs, clusterWordCounts, vectors, calls>>

NextReduce == ReduceEntry \/ Decompose \/ Project

SpecReduce == InitReduce /\ [][NextReduce]_vars

\* =================================================================== claims
Finished == pc \in {"returned", "threw"}
SameLengths == Len(texts) = Len(embeddings)

\* the document indices of all returned topics, with repetitions
RECURSIVE AllIndices(_)
AllIndices(topics) ==
  IF topics = <<>> THEN <<>> ELSE Head(topics).indices \o AllIndices(Tail(topics))

\* C1: for N = texts.length >= 1, when run returns, the topics' indices arrays
\* are pairwise disjoint and their union is exactly 0..N-1.
C1_IndicesPartitionTexts ==
  (pc = "returned" /\ Len(texts) >= 1) =>
     /\ Len(AllIndices(result)) = Len(texts)
     /\ Range(AllIndices(result)) = 0..(Len(texts) - 1)

\* C2: when k is omitted, the k handed to the clusterer lies in 1..N, for
\* every N >= 1.
C2_DefaultKWithinRange ==
  (pc \notin {"run"} /\ k = <<>> /\ Len(texts) >= 1) =>
     (numClusters >= 1 /\ numClusters <= Len(texts))

\* C3: with texts and embeddings of the same length N, a call with an explicit
\* k <= 0 or k > N fails in the clusterer's parameter check and returns nothing.
C3_BadKRejected ==
  (Finished /\ SameLengths /\ Len(texts) >= 1 /\ k # <<>>
     /\ (k[1] <= 0 \/ k[1] > Len(texts))) =>
     (pc = "threw" /\ error = "InvalidK" /\ result = <<>>)

\* C4: when texts and embeddings differ in length, run fails fast (before any
\* clustering or labelling) and returns no topics, partial or complete.  Stated
\* here is its last part: such a call never returns.
C4_LengthMismatchFailsFast ==
  (~SameLengths /\ Len(texts) >= 1) => pc # "returned"

\* ----------------------------------------------------------- reduce claims
Min(a, b) == IF a <= b THEN a ELSE b

\* C5: for targetDim >= 1 and N < targetDim + 1, reduce performs no
\* eigen-decomposition and returns N rows of exact width targetDim, row i being
\* the first min(D, targetDim) components of input vector i followed by zeros.
C5_FallbackShape ==
  (pc # "reduce" /\ targetDim >= 1 /\ Len(embeddings) < targetDim + 1) =>
     /\ pc = "returned"
     /\ calls.pca = 0
     /\ Len(result) = Len(embeddings)
     /\ \A i \in DOMAIN result :
          /\ Len(result[i]) = targetDim
          /\ \A j \in 1..targetDim :
               result[i][j] = IF j <= Min(Len(embeddings[i]), targetDim)
                              THEN embeddings[i][j] ELSE 0

\* a fallback call that both padded a short vector and returned it
C5_Witness ==
  /\ pc = "returned" /\ targetDim = 2 /\ Len(embeddings) = 2
  /\ Len(embeddings[1]) = 1
  /\ result[2] = <<embeddings[2][1], 0>>

\* C6: for N >= targetDim + 1 (targetDim >= 1), reduce returns, without
\* failing, exactly N rows each of width <= targetDim, also when fewer than
\* targetDim eigenpairs are available (each pair holding its eigenvector).
C6_NormalPathReturns ==
  (Finished /\ targetDim >= 1 /\ Len(embeddings) >= targetDim + 1
     /\ NoVector \notin Range(vectors)) =>
     /\ pc = "returned"
     /\ Len(result) = Len(embeddings)
     /\ \A i \in DOMAIN result : Len(result[i]) <= targetDim

\* C7: reduce called with targetDim <= 0 (on a matrix with at least one row)
\* fails instead of returning a result.
C7_NonPositiveTargetRejected ==
  (targetDim <= 0 /\ Len(embeddings) >= 1) => pc # "returned"

\* -------------------------------------------------------- labelling claims
\* the position in clusteredDocs of the cluster a topic was made from
GroupOf(topic) == CHOOSE c \in DOMAIN clusteredDocs : clusteredDocs[c].label = topic.id

\* the tokens counted for cluster c, in the order they were first met in its
\* documents (the insertion order of its wordCounts Map)
WordsOf(c) == [j \in DOMAIN clusterWordCounts[c] |-> clusterWordCounts[c][j].word]
FirstOccurrence(c, w) == CHOOSE j \in DOMAIN clusterWordCounts[c] : clusterWordCounts[c][j].word = w
RawCount(c, w) == clusterWordCounts[c][FirstOccurrence(c, w)].count

\* the number of clusters that counted the token at least once
ClusterFrequency(w) ==
  Cardinality({ c \in DOMAIN clusterWordCounts : w \in Range(WordsOf(c)) })

\* rawCount(a) * log(1 + T / cf(a)) compared with the same for b, in cluster c
ScoreCompare(c, a, b) ==
  LET T == Len(clusteredDocs)
      na == RawCount(c, a)
      nb == RawCount(c, b)
      fa == ClusterFrequency(a)
      fb == ClusterFrequency(b)
      lhs == Pow(fa + T, na) * Pow(fb, nb)
      rhs == Pow(fb + T, nb) * Pow(fa, na)
  IN  IF lhs > rhs THEN "greater" ELSE IF lhs = rhs THEN "equal" ELSE "less"

\* C8 as claimed: at most 5 keywords, by score descending, equal scores in
\* lexicographic order of the token.
C8_TiesLexicographic ==
  pc = "returned" =>
    \A t \in DOMAIN result :
      LET kw == result[t].keywords
          c == GroupOf(result[t])
      IN  /\ Len(kw) <= 5
          /\ \A i \in 1..(Len(kw) - 1) :
               \/ ScoreCompare(c, kw[i], kw[i + 1]) = "greater"
               \/ /\ ScoreCompare(c, kw[i], kw[i + 1]) = "equal"
                  /\ StrLess(kw[i], kw[i + 1])

\* a ranks before b: higher score, or equal score and first seen earlier
RanksBefore(c, a, b) ==
  \/ ScoreCompare(c, a, b) = "greater"
  \/ /\ ScoreCompare(c, a, b) = "equal"
     /\ FirstOccurrence(c, a) < FirstOccurrence(c, b)

\* C8 amended: at most 5 keywords, by score descending, equal scores in the
\* order the tokens first occur in the cluster's documents; the keywords are
\* the first 5 (or all) of the cluster's tokens in that ranking.
C8_TiesByFirstOccurrence ==
  pc = "returned" =>
    \A t \in DOMAIN result :
      LET kw == result[t].keywords
          c == GroupOf(result[t])
          tokens == Range(WordsOf(c))
      IN  /\ Len(kw) = Min(5, Cardinality(tokens))
          /\ Range(kw) \subseteq tokens
          /\ \A i \in 1..(Len(kw) - 1) : RanksBefore(c, kw[i], kw[i + 1])
          /\ \A w \in tokens \ Range(kw) : RanksBefore(c, kw[Len(kw)], w)

\* a topic cut to 5 keywords whose tied neighbours are not in lexicographic
\* order, and a topic whose keywords had to be reordered by score
C8_Witness ==
  /\ pc = "returned"
  /\ \E t \in DOMAIN result :
       LET kw == result[t].keywords
           c == GroupOf(result[t])
       IN  /\ Len(kw) = 5
           /\ Len(WordsOf(c)) > 5
           /\ \E i \in 1..4 :
                /\ ScoreCompare(c, kw[i], kw[i + 1]) = "equal"
                /\ StrLess(kw[i + 1], kw[i])
  /\ \E t \in DOMAIN result :
       LET kw == result[t].keywords
           c == GroupOf(result[t])
       IN  \E i \in 1..(Len(kw) - 1) : FirstOccurrence(c, kw[i]) > FirstOccurrence(c, kw[i + 1])

\* C9: run returns exactly one topic per distinct cluster id in the
\* assignment, sorted by id strictly ascending.
C9_OneTopicPerClusterAscending ==
  (pc = "returned" /\ Len(texts) >= 1) =>
     /\ { result[t].id : t \in DOMAIN result } = Range(clusters)
     /\ Len(result) = Cardinality(Range(clusters))
     /\ \A t \in 1..(Len(result) - 1) : result[t].id < result[t + 1].id

\* a returned call whose assignment meets the larger id first
C9_Witness ==
  /\ pc = "returned"
  /\ Len(clusters) >= 2
  /\ clusters[1] > clusters[2]
  /\ Len(result) = 2

\* the keywords joined with "_", written out for one, two and three keywords
Underscored(kw) ==
  IF Len(kw) = 1 THEN kw[1]
  ELSE IF Len(kw) = 2 THEN kw[1] \o <<"_">> \o kw[2]
  ELSE kw[1] \o <<"_">> \o kw[2] \o <<"_">> \o kw[3]
\* "Topic <id>" for a one-digit id
FallbackLabel(id) == <<"T", "o", "p", "i", "c", " ", DigitChars[id + 1]>>

\* C10: a topic's label is its first min(3, |keywords|) keywords joined with an
\* underscore when it has a keyword, and "Topic <id>" exactly when it has none.
C10_LabelFromKeywords ==
  pc = "returned" =>
    \A t \in DOMAIN result :
      /\ result[t].keywords # <<>> => result[t].label = Underscored(result[t].keywords)
      /\ result[t].keywords = <<>> <=> result[t].label = FallbackLabel(result[t].id)

\* one call returning a topic without keywords, one with two and one with more
C10_Witness ==
  /\ pc = "returned"
  /\ \E t \in DOMAIN result : result[t].keywords = <<>> /\ result[t].id = 1
  /\ \E t \in DOMAIN result : Len(result[t].keywords) > 3

\* ------------------------------------------------------------ scoring claim
PositionIn(s, w) == CHOOSE i \in DOMAIN s : s[i] = w

\* C11: with score = rawCount * log(1 + totalClusters / clustersWithWord),
\* every scored token has a strictly positive score, and with at least two
\* clusters a token of exactly one cluster scores strictly higher than a token
\* with the same raw count that is in every cluster: it is ranked ahead of it.
C11_ExclusiveTokenOutranksCommon ==
  pc = "returned" =>
    \A t \in DOMAIN result :
      LET c == GroupOf(result[t])
          kw == result[t].keywords
          T == Len(clusteredDocs)
          words == Range(WordsOf(c))
      IN  /\ \A w \in words :
               /\ RawCount(c, w) >= 1
               /\ ClusterFrequency(w) \in 1..T
               \* rawCount * log((cf + T) / cf) > 0
               /\ Pow(ClusterFrequency(w) + T, RawCount(c, w))
                    > Pow(ClusterFrequency(w), RawCount(c, w))
          /\ T >= 2 =>
               \A a, b \in words :
                 (/\ RawCount(c, a) = RawCount(c, b)
                  /\ ClusterFrequency(a) = 1
                  /\ ClusterFrequency(b) = T) =>
                    /\ ScoreCompare(c, a, b) = "greater"
                    /\ b \in Range(kw) =>
                         (a \in Range(kw) /\ PositionIn(kw, a) < PositionIn(kw, b))

\* two clusters, and in one of them a token of every cluster is met before an
\* equally frequent token of this cluster only, yet listed after it
C11_Witness ==
  /\ pc = "returned"
  /\ Len(clusteredDocs) = 2
  /\ \E t \in DOMAIN result :
       LET c == GroupOf(result[t])
           kw == result[t].keywords
       IN  \E a, b \in Range(kw) :
             /\ RawCount(c, a) = RawCount(c, b)
             /\ ClusterFrequency(a) = 1
             /\ ClusterFrequency(b) = 2
             /\ FirstOccurrence(c, b) < FirstOccurrence(c, a)
             /\ PositionIn(kw, a) < PositionIn(kw, b)

\* C12: run with an empty or absent texts returns an empty sequence at once,
\* without raising an error and without calling the clusterer, whatever the
\* embeddings and k arguments are.
C12_EmptyTextsReturnEmpty ==
  ((~textsGiven \/ Len(texts) = 0) /\ pc # "run") =>
     /\ pc = "returned"
     /\ result = <<>>
     /\ error = "none"
     /\ calls.kmeans = 0

\* an empty texts array given together with one embedding and a k no
\* clustering accepts
C12_Witness ==
  /\ pc = "returned"
  /\ textsGiven /\ texts = <<>>
  /\ Len(embeddings) = 1
  /\ k = <<-1>>

\* ------------------------------------------------------- projection claims
\* a[1] * b[1] + ... + a[n] * b[n]
RECURSIVE SumOfProducts(_, _, _)
SumOfProducts(a, b, n) ==
  IF n = 0 THEN 0 ELSE SumOfProducts(a, b, n - 1) + a[n] * b[n]

C16_ParallelArrays ==
  pc = "returned" =>
    \A t \in DOMAIN result :
      LET topic == result[t] IN
      /\ Len(topic.docs) = Len(topic.indices)
      /\ Len(topic.embeddings) = Len(topic.indices)
      /\ \A j \in 1..(Len(topic.indices) - 1) : topic.indices[j] < topic.indices[j + 1]
      /\ \A j \in DOMAIN topic.indices :
           /\ topic.indices[j] \in 0..(Len(texts) - 1)
           /\ topic.indices[j] \in 0..(Len(embeddings) - 1)
           /\ topic.docs[j] = texts[topic.indices[j] + 1]
           /\ topic.embeddings[j] = embeddings[topic.indices[j] + 1]

\* a topic made of the first and the third of three different documents
C16_Witness ==
  /\ pc = "returned"
  /\ Len(texts) = 3 /\ texts[1] # texts[3] /\ texts[2] # texts[3]
  /\ \E t \in DOMAIN result : result[t].indices = <<0, 2>>
  /\ \E t \in DOMAIN result : result[t].indices = <<1>>

coreVars == <<texts, textsGiven, stopSet, prev, embeddings, k, targetDim, pc,
              numClusters, clusters, clusteredDocs, clusterWordCounts, vectors,
              result, error, calls>>

\* a line of the text area is blank (empty after trim) or holds text
Inputs == SeqsUpTo({"blank", "text"}, MaxLines)
IsText(l) == l = "text"
\* text.split('\n').map(l => l.trim()).filter(l => l.length > 0)
Lines(inp) == SelectSeq(inp, IsText)

\* Math.round((idx / total) * 100)
Percent(idx, total) == (200 * idx + total) \div (2 * total)

\* btn.disabled = true; ...; status.textContent = `Generating ...`; the progress
\* container is shown with an empty bar
StartUiMutant(u) ==
  [u EXCEPT !.btnText = FALSE, !.loader = TRUE,
            !.status = "Generating embeddings", !.progress = TRUE, !.pct = 0]
StartUi(u) ==
  [u EXCEPT !.disabled = TRUE, !.btnText = FALSE, !.loader = TRUE,
            !.status = "Generating embeddings", !.progress = TRUE, !.pct = 0]

\* catch (err) { ...; status.textContent = "Error: " + err.message; }
CatchUi(u, what) == [u EXCEPT !.status = what]

\* finally { btn.disabled = false; btnText shown; loader hidden }
FinallyUi(u) == [u EXCEPT !.disabled = FALSE, !.btnText = TRUE, !.loader = FALSE]

\* the end of the try block: the status line and the progress container
SuccessUi(u) == [u EXCEPT !.status = "Visualizing", !.progress = FALSE]

\* DimensionalityReducer.reduce(embeddings, 3) leaves the fallback for n rows,
\* where the projection can throw
ReduceCanThrow(n) == ~UsesFallback(RunEmbeddings(n), 3)
\* app.topicModeler.run(lines, embeddings), k omitted, throws in the clusterer
RunThrows(n) ==
  KmeansRejects(RunEmbeddings(n), NumClusters(RunEmbeddings(n), <<>>))

Without(s, h) == SubSeq(s, 1, h - 1) \o SubSeq(s, h + 1, Len(s))

InitHandler ==
  /\ ui = IdleUi
  /\ input \in Inputs
  /\ handlers = <<>>
  /\ texts = <<>>
  /\ textsGiven = FALSE
  /\ stopSet = stopWords
  /\ prev = <<>>
  /\ embeddings = <<>>
  /\ k = <<>>
  /\ targetDim = 0
  /\ pc = "idle"
  /\ numClusters = 0
  /\ clusters = <<>>
  /\ clusteredDocs = <<>>
  /\ clusterWordCounts = <<>>
  /\ vectors = <<>>
  /\ result = <<>>
  /\ error = "none"
  /\ calls = NoCalls

\* the user changes the text area
EditInput ==
  /\ input' \in Inputs \ {input}
  /\ UNCHANGED <<ui, handlers, coreVars>>

\* a click: a disabled button dispatches none.  The handler runs up to its
\* first await, inside generateEmbeddings
Click ==
  /\ ~ui.disabled
  /\ Len(handlers) < MaxHandlers
  /\ IF Len(Lines(input)) = 0
     THEN UNCHANGED <<ui, handlers>>
     ELSE /\ ui' = StartUi(ui)
          /\ handlers' = Append(handlers, [at |-> "pipe", n |-> Len(Lines(input)), i |-> 0])
  /\ UNCHANGED <<input, coreVars>>

\* the handler ends through catch and finally
Fail(h, what) ==
  /\ ui' = FinallyUi(CatchUi(ui, what))
  /\ handlers' = Without(handlers, h)

\* await this.pipe(text, ...) settles: the embedding is pushed and onProgress
\* called, or the rejection is thrown into the handler
EmbedPipe(h) ==
  /\ handlers[h].at = "pipe"
  /\ \/ /\ handlers' = [handlers EXCEPT ![h].i = @ + 1, ![h].at = "tick"]
        /\ ui' = [ui EXCEPT !.pct = Percent(handlers[h].i + 1, handlers[h].n)]
     \/ Fail(h, "Error: embedding")
  /\ UNCHANGED <<input, coreVars>>

\* await new Promise(r => setTimeout(r, 0)) settles: the next text, or, after
\* the last one, reduce and the status line, up to the await of the 10 ms timer
EmbedTick(h) ==
  /\ handlers[h].at = "tick"
  /\ IF handlers[h].i < handlers[h].n
     THEN /\ handlers' = [handlers EXCEPT ![h].at = "pipe"]
          /\ UNCHANGED ui
     ELSE \/ /\ handlers' = [handlers EXCEPT ![h].at = "yield"]
             /\ ui' = [ui EXCEPT !.status = "Clustering and identifying topics"]
          \/ /\ ReduceCanThrow(handlers[h].n)
             /\ Fail(h, "Error: reduce")
  /\ UNCHANGED <<input, coreVars>>

\* after the timer: run, the topic assignments, updatePoints, then finally
Visualize(h) ==
  /\ handlers[h].at = "yield"
  /\ IF RunThrows(handlers[h].n)
     THEN Fail(h, "Error: topics")
     ELSE \/ /\ ui' = FinallyUi(SuccessUi(ui))
             /\ handlers' = Without(handlers, h)
          \/ Fail(h, "Error: plot")
  /\ UNCHANGED <<input, coreVars>>

HandlerStep == \E h \in DOMAIN handlers : EmbedPipe(h) \/ EmbedTick(h) \/ Visualize(h)

NextHandler ==
  \/ EditInput
  \/ Click
  \/ \E h \in DOMAIN handlers : EmbedPipe(h)
  \/ \E h \in DOMAIN handlers : EmbedTick(h)
  \/ \E h \in DOMAIN handlers : Visualize(h)

\* every pending await settles: timers fire, and the inference promise resolves
\* or rejects
SpecHandler == InitHandler /\ [][NextHandler]_vars /\ WF_vars(HandlerStep)

\* C17: once the click handler starts processing a non-empty input the button
\* is disabled until the handler finishes; on every path, success or an error
\* thrown while embedding, reducing, modelling topics or plotting, the button
\* is re-enabled and the loader hidden in the end; so two processing runs
\* started from the button never overlap.
C17_ButtonGuardsProcessing ==
  /\ [](Len(handlers) <= 1)
  /\ [](Len(handlers) >= 1 => ui.disabled)
  /\ (Len(handlers) >= 1) ~> (Len(handlers) = 0 /\ ~ui.disabled /\ ~ui.loader)

\* a run that failed in topic modelling has ended with the button enabled,
\* the loader hidden and the progress bar left full
C17_Witness ==
  /\ handlers = <<>>
  /\ ui.status = "Error: topics"
  /\ ~ui.disabled /\ ~ui.loader /\ ui.btnText
  /\ ui.pct = 100
====
